---------------------------- MODULE Spec2Model ----------------------------
(***************************************************************************)
(* County-level agricultural data fetchers (scripts/fetch_ag_data*.py).    *)
(*                                                                         *)
(* Text is modelled as a sequence of one-character strings, so that        *)
(* trimming, comma removal and numeric parsing are computed, not assumed.  *)
(* Python's None is the empty sequence and a number n is <<n>>.            *)
(***************************************************************************)
EXTENDS Integers, Sequences, FiniteSets, TLC

VARIABLES
    value_str,   \* SpecN: the raw "Value" text being normalised
    norm,        \* SpecN: its classification
    npc,         \* SpecN: "input" | "done"
    records,     \* SpecR: the records of one county
    result,      \* SpecR: what process_county_records returned
    emitted,     \* SpecR: the rows the county loop appended for them
    rpc,         \* SpecR: "input" | "done"
    cache,       \* Spec: CACHE_DIR, metric name -> the lines of <name>.csv
    saved,       \* what the running (or last) main() wrote to ag_data.csv, or None
    pc,          \* Spec: where main() is
    idx,         \* Spec: position of main's loop in METRICS
    sidx,        \* Spec: position of the fetch loop in TARGET_STATES
    all_counties_data,  \* Spec: rows collected by the running fetch
    requests,    \* Spec: fetch_with_retry calls made in this run
    ret,         \* Spec: the table the last fetch_metric_multistate returned
    frames,      \* Spec: main's frames
    fetch_stats, \* Spec: main's fetch_stats, kept until the next run starts
    exit_code,   \* exit status of the last finished run, or None
    attempt,     \* SpecT: requests.get calls made by the running fetch_with_retry
    status,      \* SpecT: how the latest of them ended, "" before the first
    fetched,     \* SpecT: data, what fetch_with_retry returned for the region
    pauses,      \* SpecT: seconds the running fetch slept in time.sleep(API_DELAY)
    waited,      \* SpecT: seconds slept inside the running fetch_with_retry
    merged_df,   \* SpecD: the merged table handed to the cleaning and derivation;
                 \* SpecFarm: existing_df, ag_data.csv as the run loaded it
    dpc          \* SpecD: "input" | "done"

nvars == <<value_str, norm, npc>>
rvars == <<records, result, emitted, rpc>>
fvars == <<cache, saved, pc, idx, sidx, all_counties_data, requests, ret, frames>>
mvars == <<fetch_stats, exit_code>>
tvars == <<attempt, status, fetched, pauses, waited, merged_df, dpc>>
vars == <<value_str, norm, npc, records, result, emitted, rpc,
          cache, saved, pc, idx, sidx, all_counties_data, requests, ret, frames,
          fetch_stats, exit_code, attempt, status, fetched, pauses, waited, merged_df, dpc>>

-----------------------------------------------------------------------------
(* Bounds *)

\* longest raw value text drawn in SpecN
MaxStrLen == 5

\* most records of one county drawn in SpecR
MaxRecords == 3

\* how many of TARGET_STATES a fetch visits
NumStates == 1

\* how many entries of METRICS a run fetches
NumMetrics == 2

\* most records in one API response
MaxRespRecords == 2

\* how many of TARGET_STATES a fetch visits in SpecT
NumRegions == 2

\* most rows of a merged table drawn in SpecD
MaxMergedRows == 1

-----------------------------------------------------------------------------
(* Text helpers: str.strip, str.replace(",", ""), float *)

None == <<>>

Some(n) == <<n>>

WITHHELD == <<"(", "D", ")">>

NOT_SPECIFIED == "NOT SPECIFIED"

IsSpace(c) == c = " "

IsDigit(c) == c \in {"0", "1", "2", "3", "4", "5", "6", "7", "8", "9"}

DigitVal(c) ==
    CASE c = "0" -> 0 [] c = "1" -> 1 [] c = "2" -> 2 [] c = "3" -> 3
      [] c = "4" -> 4 [] c = "5" -> 5 [] c = "6" -> 6 [] c = "7" -> 7
      [] c = "8" -> 8 [] c = "9" -> 9

RECURSIVE LStrip(_)
LStrip(s) == IF s # <<>> /\ IsSpace(Head(s)) THEN LStrip(Tail(s)) ELSE s

RECURSIVE RStrip(_)
RStrip(s) ==
    IF s # <<>> /\ IsSpace(s[Len(s)]) THEN RStrip(SubSeq(s, 1, Len(s) - 1)) ELSE s

\* str.strip()
Strip(s) == RStrip(LStrip(s))

\* value_str.replace(",", "")
RemoveCommas(s) == SelectSeq(s, LAMBDA c : c # ",")

RECURSIVE Decimal(_)
Decimal(s) ==
    IF s = <<>> THEN 0 ELSE 10 * Decimal(SubSeq(s, 1, Len(s) - 1)) + DigitVal(s[Len(s)])

\* float(text): surrounding whitespace is ignored, then the text must be a
\* numeric literal (over the modelled alphabet: a non-empty run of digits);
\* anything else raises ValueError, returned here as None.
ParseFloat(s) ==
    LET t == Strip(s)
    IN  IF t # <<>> /\ \A i \in 1..Len(t) : IsDigit(t[i]) THEN Some(Decimal(t)) ELSE None

-----------------------------------------------------------------------------
(* Value normalisation as process_county_records does it inline *)

\* the withheld test of the code: made on the trimmed text, commas still in
IsWithheld(v) == v = WITHHELD \/ v = <<>>

\* the comma-free numeric parse inside the try block
CleanParse(v) == ParseFloat(RemoveCommas(v))

Normalize(raw) ==
    LET v == Strip(raw)
    IN  IF IsWithheld(v) THEN [value |-> None, withheld |-> TRUE]
        ELSE [value |-> CleanParse(v), withheld |-> FALSE]


\* one raw "Value" text classified: (numeric value or None, withheld indicator)
NormalizeValue ==
    /\ npc = "input"
    /\ norm' = Normalize(value_str)
    /\ npc' = "done"
    /\ UNCHANGED <<value_str, rvars, fvars, mvars, tvars>>

-----------------------------------------------------------------------------
(* process_county_records *)

\* elif domaincat != "NOT SPECIFIED" and domain_desc != "TOTAL"
IsSubcategory_CountsTotal(record) == record.domaincat_desc # NOT_SPECIFIED

IsSubcategory(record) ==
    record.domaincat_desc # NOT_SPECIFIED /\ record.domain_desc # "TOTAL"

\* domain_groups[domain_desc].append(numeric_value) on an insertion-ordered dict
GroupAppend(groups, d, x) ==
    IF \E i \in 1..Len(groups) : groups[i].domain = d
    THEN [i \in 1..Len(groups) |->
            IF groups[i].domain = d
            THEN [groups[i] EXCEPT !.values = Append(@, x)]
            ELSE groups[i]]
    ELSE Append(groups, [domain |-> d, values |-> <<x>>])

\* the dict entry created by a lookup that appends nothing
GroupTouch(groups, d) ==
    IF \E i \in 1..Len(groups) : groups[i].domain = d
    THEN groups
    ELSE Append(groups, [domain |-> d, values |-> <<>>])

InitScan == [total_value |-> None, total_is_withheld |-> FALSE, domain_groups |-> <<>>]

\* a loop body that looks the group up before the parse can fail
StepRecord_GroupBeforeParse(st, record) ==
    LET n == Normalize(record.Value)
    IN  IF record.domaincat_desc = NOT_SPECIFIED
        THEN IF n.withheld THEN [st EXCEPT !.total_is_withheld = TRUE]
             ELSE IF n.value # None THEN [st EXCEPT !.total_value = n.value]
             ELSE st
        ELSE IF IsSubcategory(record) /\ ~n.withheld
        THEN IF n.value # None
             THEN [st EXCEPT !.domain_groups = GroupAppend(@, record.domain_desc, n.value[1])]
             ELSE [st EXCEPT !.domain_groups = GroupTouch(@, record.domain_desc)]
        ELSE st

\* a loop body in which a disclosed total clears the withheld mark
StepRecord_DisclosedClearsWithheld(st, record) ==
    LET n == Normalize(record.Value)
    IN  IF record.domaincat_desc = NOT_SPECIFIED
        THEN IF n.withheld THEN [st EXCEPT !.total_is_withheld = TRUE]
             ELSE IF n.value # None
             THEN [st EXCEPT !.total_value = n.value, !.total_is_withheld = FALSE]
             ELSE st
        ELSE IF IsSubcategory(record) /\ ~n.withheld /\ n.value # None
        THEN [st EXCEPT !.domain_groups = GroupAppend(@, record.domain_desc, n.value[1])]
        ELSE st

\* the body of "for record in records"
StepRecord(st, record) ==
    LET n == Normalize(record.Value)
    IN  IF record.domaincat_desc = NOT_SPECIFIED
        THEN IF n.withheld THEN [st EXCEPT !.total_is_withheld = TRUE]
             ELSE IF n.value # None THEN [st EXCEPT !.total_value = n.value]
             ELSE st
        ELSE IF IsSubcategory(record) /\ ~n.withheld /\ n.value # None
        THEN [st EXCEPT !.domain_groups = GroupAppend(@, record.domain_desc, n.value[1])]
        ELSE st

RECURSIVE ScanRecords(_, _)
ScanRecords(recs, st) ==
    IF recs = <<>> THEN st ELSE ScanRecords(Tail(recs), StepRecord(st, Head(recs)))

RECURSIVE SumSeq(_)
SumSeq(xs) == IF xs = <<>> THEN 0 ELSE Head(xs) + SumSeq(Tail(xs))

\* a max that keeps the last of the largest groups
BestDomain_LastMax(groups) ==
    groups[CHOOSE i \in 1..Len(groups) :
              /\ \A j \in 1..Len(groups) : Len(groups[j].values) <= Len(groups[i].values)
              /\ \A j \in (i + 1)..Len(groups) : Len(groups[j].values) < Len(groups[i].values)]

RECURSIVE AllValues(_)
AllValues(groups) ==
    IF groups = <<>> THEN <<>> ELSE Head(groups).values \o AllValues(Tail(groups))

\* a selection that pools every domain's values
BestDomain_Pooled(groups) == [domain |-> "*", values |-> AllValues(groups)]

\* max(domain_groups.items(), key=lambda x: len(x[1])): the first of the largest
BestDomain(groups) ==
    groups[CHOOSE i \in 1..Len(groups) :
              /\ \A j \in 1..Len(groups) : Len(groups[j].values) <= Len(groups[i].values)
              /\ \A j \in 1..(i - 1) : Len(groups[j].values) < Len(groups[i].values)]

\* decision logic that reconstructs whenever subcategories exist
Decide_SubcategoriesFirst(st) ==
    IF st.domain_groups # <<>>
    THEN [value |-> Some(SumSeq(BestDomain(st.domain_groups).values)), is_estimated |-> TRUE]
    ELSE IF st.total_value # None /\ ~st.total_is_withheld
    THEN [value |-> st.total_value, is_estimated |-> FALSE]
    ELSE [value |-> None, is_estimated |-> FALSE]

\* decision logic that reports zero for "no data at all"
Decide_ZeroWhenEmpty(st) ==
    IF st.total_value # None /\ ~st.total_is_withheld
    THEN [value |-> st.total_value, is_estimated |-> FALSE]
    ELSE IF st.domain_groups # <<>>
    THEN [value |-> Some(SumSeq(BestDomain(st.domain_groups).values)), is_estimated |-> TRUE]
    ELSE [value |-> Some(0), is_estimated |-> FALSE]

\* the decision logic after the loop
Decide(st) ==
    IF st.total_value # None /\ ~st.total_is_withheld
    THEN [value |-> st.total_value, is_estimated |-> FALSE]
    ELSE IF st.domain_groups # <<>>
    THEN [value |-> Some(SumSeq(BestDomain(st.domain_groups).values)), is_estimated |-> TRUE]
    ELSE [value |-> None, is_estimated |-> FALSE]

process_county_records(recs) == Decide(ScanRecords(recs, InitScan))

\* the county loop body of fetch_metric_multistate: a row only for a value
CountyRows(state, county, county_data) ==
    LET r == process_county_records(county_data)
    IN  IF r.value # None
        THEN <<[state_name |-> state, county_name |-> Some(county), year |-> 2022,
                Value |-> r.value[1], is_estimated |-> r.is_estimated]>>
        ELSE <<>>

\* the records of one county reconciled, and the row the fetcher keeps
Reconcile ==
    /\ rpc = "input"
    /\ result' = process_county_records(records)
    /\ emitted' = CountyRows("OR", "BAKER", records)
    /\ rpc' = "done"
    /\ UNCHANGED <<records, nvars, fvars, mvars, tvars>>

-----------------------------------------------------------------------------
(* Inputs *)

SeqsUpTo(S, n) == UNION {[1..k -> S] : k \in 0..n}

Alphabet == {" ", ",", "(", "D", ")", "1", "2"}

\* "(D)", "", " 1", "2,0", "D"
ReconValues == {WITHHELD, <<>>, <<" ", "1">>, <<"2", ",", "0">>, <<"D">>}

ReconRecords ==
    [county_name : {"BAKER"}, domaincat_desc : {NOT_SPECIFIED, "X"},
     domain_desc : {"TOTAL", "A", "B"}, Value : ReconValues]

NIdle == /\ value_str = <<>> /\ norm = [value |-> None, withheld |-> FALSE] /\ npc = "off"

RIdle ==
    /\ records = <<>>
    /\ result = [value |-> None, is_estimated |-> FALSE]
    /\ emitted = <<>>
    /\ rpc = "off"

-----------------------------------------------------------------------------
(* fetch_ag_data_enhanced.py: configuration and the cache files *)

TARGET_STATES == <<"OR", "WA", "CA", "NV", "ID", "MT">>

\* entries of the METRICS dictionary, in declaration order
METRICS ==
    <<[name |-> "farms",
       short_desc |-> "FARM OPERATIONS - NUMBER OF OPERATIONS",
       extra_params |-> "None"],
      [name |-> "irrigated_acres",
       short_desc |-> "AG LAND, IRRIGATED - ACRES",
       extra_params |-> "prodn_practice_desc=IRRIGATED"],
      [name |-> "farms_1_9_acres",
       short_desc |-> "FARM OPERATIONS - NUMBER OF OPERATIONS",
       extra_params |-> "domaincat_desc=AREA OPERATED: (1.0 TO 9.9 ACRES)"],
      [name |-> "farms_10_49_acres",
       short_desc |-> "FARM OPERATIONS - NUMBER OF OPERATIONS",
       extra_params |-> "domaincat_desc=AREA OPERATED: (10.0 TO 49.9 ACRES)"]>>

\* the texts pandas.read_csv turns into NaN by default
NA_VALUES ==
    {"", "#N/A", "#N/A N/A", "#NA", "-1.#IND", "-1.#QNAN", "-NaN", "-nan", "1.#IND",
     "1.#QNAN", "<NA>", "N/A", "NA", "NULL", "NaN", "None", "n/a", "nan", "null"}

\* combined_df.to_csv(cache_file, index=False): one line per row; the county is
\* written as its text (NaN as the empty field), the float by repr, the flag as
\* True/False, which read back as the same float and flag.
to_csv(rows) ==
    [i \in 1..Len(rows) |->
        [state_name |-> rows[i].state_name,
         county_name |-> IF rows[i].county_name = None THEN "" ELSE rows[i].county_name[1],
         year |-> rows[i].year,
         Value |-> rows[i].Value,
         is_estimated |-> rows[i].is_estimated]]

\* pd.read_csv(cache_file): a county field among NA_VALUES is read as NaN
\* (no code of TARGET_STATES is one of them; a column of number-like county
\* names, which pandas would read as numbers, is not among the inputs)
read_csv(lines) ==
    [i \in 1..Len(lines) |->
        [state_name |-> lines[i].state_name,
         county_name |-> IF lines[i].county_name \in NA_VALUES
                         THEN None ELSE Some(lines[i].county_name),
         year |-> lines[i].year,
         Value |-> lines[i].Value,
         is_estimated |-> lines[i].is_estimated]]

\* a lookup that trusts the cache only for unfiltered metrics
CacheHit_UnfilteredOnly(c, short_desc, metric_name, extra_params) ==
    metric_name \in DOMAIN c /\ extra_params = "None"

\* a lookup that refetches a metric whose cached table lacks a region
CacheHit_AllRegions(c, short_desc, metric_name, extra_params) ==
    /\ metric_name \in DOMAIN c
    /\ \A k \in 1..NumRegions :
          \E i \in 1..Len(c[metric_name]) : c[metric_name][i].state_name = TARGET_STATES[k]

\* os.path.exists(os.path.join(CACHE_DIR, f"{metric_name}.csv"))
CacheHit(c, short_desc, metric_name, extra_params) == metric_name \in DOMAIN c

-----------------------------------------------------------------------------
(* fetch_metric_multistate: one region *)

\* county_records: the counties of a response in order of first appearance,
\* records without a county name skipped
RECURSIVE CountyOrder(_, _)
CountyOrder(data, seen) ==
    IF data = <<>> THEN <<>>
    ELSE LET c == Head(data).county_name
         IN  IF c = "" \/ c \in seen
             THEN CountyOrder(Tail(data), seen)
             ELSE <<c>> \o CountyOrder(Tail(data), seen \cup {c})

CountyData(data, c) == SelectSeq(data, LAMBDA r : r.county_name = c)

RECURSIVE RowsOfCounties(_, _, _)
RowsOfCounties(state, counties, data) ==
    IF counties = <<>> THEN <<>>
    ELSE CountyRows(state, Head(counties), CountyData(data, Head(counties)))
            \o RowsOfCounties(state, Tail(counties), data)

\* the rows one region's records add to all_counties_data
StateRows(state, data) == RowsOfCounties(state, CountyOrder(data, {}), data)

\* the records an API response is made of
FetchRecords ==
    {[county_name |-> "NA", domaincat_desc |-> NOT_SPECIFIED, domain_desc |-> "TOTAL",
      Value |-> <<"1">>],
     [county_name |-> "NA", domaincat_desc |-> NOT_SPECIFIED, domain_desc |-> "TOTAL",
      Value |-> WITHHELD],
     [county_name |-> "NULL", domaincat_desc |-> "X", domain_desc |-> "A",
      Value |-> <<"0">>],
     [county_name |-> "", domaincat_desc |-> NOT_SPECIFIED, domain_desc |-> "TOTAL",
      Value |-> <<"1">>]}

\* what fetch_with_retry hands back for one region: None after the retries,
\* a JSON object without "data", one whose "data" entries are not objects,
\* or one with a list of records
Responses ==
    {[kind |-> k, data |-> <<>>] : k \in {"none", "nodata", "malformed"}}
        \cup {[kind |-> "data", data |-> d] : d \in SeqsUpTo(FetchRecords, MaxRespRecords)}

-----------------------------------------------------------------------------
(* main: the merge *)

KeyOf(r) == <<r.state_name, r.county_name, r.year>>

NullCell == [Value |-> None, is_estimated |-> None]

CellOf(r) == [Value |-> Some(r.Value), is_estimated |-> Some(r.is_estimated)]

\* a returned table as main appends it to frames: col_name, and per row the
\* merge key and the renamed value columns
FrameOf(name, rows) ==
    [name |-> name,
     rows |-> [i \in 1..Len(rows) |-> [key |-> KeyOf(rows[i]), cell |-> CellOf(rows[i])]]]

\* the first frame as the left side of the first merge
FrameToMerged(f) ==
    [cols |-> {f.name},
     rows |-> [i \in 1..Len(f.rows) |->
                 [key |-> f.rows[i].key, cells |-> (f.name :> f.rows[i].cell)]]]

RECURSIVE MergeLeft(_, _, _)
MergeLeft(lrows, f, null) ==
    IF lrows = <<>> THEN <<>>
    ELSE LET l == Head(lrows)
             ms == SelectSeq(f.rows, LAMBDA r : r.key = l.key)
         IN  (IF ms = <<>>
              THEN <<[key |-> l.key, cells |-> (f.name :> null) @@ l.cells]>>
              ELSE [j \in 1..Len(ms) |->
                      [key |-> l.key, cells |-> (f.name :> ms[j].cell) @@ l.cells]])
             \o MergeLeft(Tail(lrows), f, null)

\* pd.merge(left, right, on=[state_name, county_name, year], how="outer"):
\* every pair of rows with equal keys (NaN keys match each other), and the
\* unmatched rows of either side with nulls for the other's columns.  pandas
\* orders the result by key; the order kept here is left rows, then right-only.
OuterMerge(left, f, null) ==
    LET rightOnly == SelectSeq(f.rows,
                        LAMBDA r : \A i \in 1..Len(left.rows) : left.rows[i].key # r.key)
    IN  [cols |-> left.cols \cup {f.name},
         rows |-> MergeLeft(left.rows, f, null)
                    \o [j \in 1..Len(rightOnly) |->
                          [key |-> rightOnly[j].key,
                           cells |-> (f.name :> rightOnly[j].cell)
                                        @@ [c \in left.cols |-> null]]]]

RECURSIVE MergeFrom(_, _, _)
MergeFrom(acc, fs, null) ==
    IF fs = <<>> THEN acc ELSE MergeFrom(OuterMerge(acc, Head(fs), null), Tail(fs), null)

\* reduce(lambda left, right: pd.merge(...), frames)
MergeAll(fs, null) == MergeFrom(FrameToMerged(Head(fs)), Tail(fs), null)

\* merged.drop(columns=estimated_cols) as written to ag_data.csv
OutputOf(merged) ==
    [cols |-> merged.cols,
     rows |-> [i \in 1..Len(merged.rows) |->
                 [key |-> merged.rows[i].key,
                  cells |-> [c \in merged.cols |-> merged.rows[i].cells[c].Value]]]]

-----------------------------------------------------------------------------
(* Spec: any number of runs of fetch_ag_data_enhanced.main against one cache *)
(* directory *)

\* python fetch_ag_data_enhanced.py
MainStart ==
    /\ pc = "idle"
    /\ pc' = "loop"
    /\ idx' = 1
    /\ frames' = <<>>
    /\ requests' = 0
    /\ saved' = None
    /\ fetch_stats' = <<>>
    /\ exit_code' = None
    /\ UNCHANGED <<cache, sidx, all_counties_data, ret, nvars, rvars, tvars>>

\* main calls fetch_metric_multistate(desc, col_name, extras): the cache check
CallFetch ==
    /\ pc = "loop"
    /\ idx <= NumMetrics
    /\ LET m == METRICS[idx]
       IN  IF CacheHit(cache, m.short_desc, m.name, m.extra_params)
           THEN /\ ret' = read_csv(cache[m.name])
                /\ pc' = "returned"
                /\ UNCHANGED <<sidx, all_counties_data>>
           ELSE /\ pc' = "fetch"
                /\ sidx' = 1
                /\ all_counties_data' = <<>>
                /\ UNCHANGED ret
    /\ UNCHANGED <<cache, saved, idx, requests, frames, mvars, nvars, rvars, tvars>>

\* one pass of "for state in TARGET_STATES": the retrieval and its records
FetchState(resp) ==
    /\ pc = "fetch"
    /\ sidx <= NumStates
    /\ requests' = requests + 1
    /\ IF resp.kind = "malformed"
       THEN /\ pc' = "raised"
            /\ sidx' = 1
            /\ all_counties_data' = <<>>
       ELSE /\ pc' = pc
            /\ sidx' = sidx + 1
            /\ all_counties_data' =
                  IF resp.kind = "data"
                  THEN all_counties_data \o StateRows(TARGET_STATES[sidx], resp.data)
                  ELSE all_counties_data
    /\ UNCHANGED <<cache, saved, idx, ret, frames, mvars, nvars, rvars, tvars>>

\* after the loop: nothing collected, or the table cached and returned
\* (the call's locals end with it)
FetchFinish ==
    /\ pc = "fetch"
    /\ sidx > NumStates
    /\ IF all_counties_data = <<>>
       THEN /\ ret' = <<>>
            /\ UNCHANGED cache
       ELSE /\ cache' = (METRICS[idx].name :> to_csv(all_counties_data)) @@ cache
            /\ ret' = all_counties_data
    /\ pc' = "returned"
    /\ sidx' = 1
    /\ all_counties_data' = <<>>
    /\ UNCHANGED <<saved, idx, requests, frames, mvars, nvars, rvars, tvars>>

\* main: "if not df.empty" after the call returned
MainCollect ==
    /\ pc = "returned"
    /\ frames' = IF ret # <<>>
                 THEN Append(frames, FrameOf(METRICS[idx].name, ret))
                 ELSE frames
    /\ fetch_stats' = Append(fetch_stats,
                              IF ret # <<>>
                              THEN [metric |-> METRICS[idx].name, total_rows |-> Len(ret),
                                    error |-> ""]
                              ELSE [metric |-> METRICS[idx].name, total_rows |-> 0,
                                    error |-> "No data"])
    /\ idx' = idx + 1
    /\ pc' = "loop"
    /\ UNCHANGED <<cache, saved, sidx, all_counties_data, requests, ret, exit_code,
                   nvars, rvars, tvars>>

\* an exception that ends the loop over METRICS
MainExcept_Abort ==
    /\ pc = "raised"
    /\ fetch_stats' = Append(fetch_stats,
                              [metric |-> METRICS[idx].name, total_rows |-> 0,
                               error |-> "AttributeError"])
    /\ idx' = NumMetrics + 1
    /\ pc' = "loop"
    /\ UNCHANGED <<cache, saved, sidx, all_counties_data, requests, ret, frames,
                   exit_code, nvars, rvars, tvars>>

\* main: "except Exception" around the call
MainExcept ==
    /\ pc = "raised"
    /\ fetch_stats' = Append(fetch_stats,
                              [metric |-> METRICS[idx].name, total_rows |-> 0,
                               error |-> "AttributeError"])
    /\ idx' = idx + 1
    /\ pc' = "loop"
    /\ UNCHANGED <<cache, saved, sidx, all_counties_data, requests, ret, frames,
                   exit_code, nvars, rvars, tvars>>

\* main after the loop: no frames (log and return), or merge and save; main
\* returns and the interpreter exits with status 0 either way
MainFinish ==
    /\ pc = "loop"
    /\ idx > NumMetrics
    /\ saved' = IF frames = <<>> THEN saved ELSE Some(OutputOf(MergeAll(frames, NullCell)))
    /\ pc' = "idle"
    /\ idx' = 1
    /\ requests' = 0
    /\ ret' = <<>>
    /\ frames' = <<>>
    /\ exit_code' = Some(0)
    /\ UNCHANGED <<cache, sidx, all_counties_data, fetch_stats, nvars, rvars, tvars>>

FIdle ==
    /\ cache = <<>>
    /\ saved = None
    /\ pc = "idle"
    /\ idx = 1
    /\ sidx = 1
    /\ all_counties_data = <<>>
    /\ requests = 0
    /\ ret = <<>>
    /\ frames = <<>>
    /\ fetch_stats = <<>>
    /\ exit_code = None
    /\ attempt = 0
    /\ status = ""
    /\ fetched = None
    /\ pauses = 0
    /\ waited = 0

DIdle == /\ merged_df = [cols |-> {}, rows |-> <<>>] /\ dpc = "off"

Init == FIdle /\ NIdle /\ RIdle /\ DIdle

Next ==
    \/ MainStart
    \/ CallFetch
    \/ \E resp \in Responses : FetchState(resp)
    \/ FetchFinish
    \/ MainCollect
    \/ MainExcept
    \/ MainFinish

Spec == Init /\ [][Next]_vars

-----------------------------------------------------------------------------
(* SpecBasic: runs of fetch_ag_data.main (no cache, no reconciliation) *)

\* entries of fetch_ag_data.METRICS, in declaration order
BASIC_METRICS ==
    <<"farms", "grass_seed_bentgrass_acres", "grass_seed_fescue_acres", "hay_acres">>

grass_seed_cols ==
    {"grass_seed_bentgrass_acres", "grass_seed_bermudagrass_acres",
     "grass_seed_bluegrass_acres", "grass_seed_bromegrass_acres",
     "grass_seed_fescue_acres", "grass_seed_orchardgrass_acres",
     "grass_seed_redtop_acres", "grass_seed_ryegrass_acres",
     "grass_seed_sudangrass_acres", "grass_seed_timothy_acres",
     "grass_seed_wheatgrass_acres"}

\* the records of an API response as this script reads them
BasicRecords ==
    [state_name : {"OREGON"}, county_name : {"BAKER", "UNION"}, year : {2022},
     Value : {<<"1">>, WITHHELD}]

\* requests.get for one region: an exception (also a missing column), a status
\* other than 200, a body without usable "data", or a list of records
BasicResponses ==
    {[kind |-> k, data |-> <<>>] : k \in {"error", "status", "nodata"}}
        \cup {[kind |-> "data", data |-> d] :
                d \in SeqsUpTo(BasicRecords, MaxRespRecords) \ {<<>>}}

\* df[["state_name", "county_name", "year", "Value"]] as a frame's rows: the
\* merge key and the raw Value text
BasicFrameRows(data) ==
    [i \in 1..Len(data) |-> [key |-> KeyOf(data[i]), cell |-> Some(data[i].Value)]]

\* a cleaning that leaves the thousands separators in
CleanCell_KeepCommas(cell) == IF cell = None THEN None ELSE ParseFloat(Strip(cell[1]))

\* astype(str), strip, remove commas, pd.to_numeric(errors="coerce")
CleanCell(cell) == IF cell = None THEN None ELSE CleanParse(Strip(cell[1]))

FillNa0(cell) == IF cell = None THEN 0 ELSE cell[1]

RECURSIVE SumCols(_, _)
SumCols(cells, cols) ==
    IF cols = {} THEN 0
    ELSE LET c == CHOOSE x \in cols : TRUE
         IN  FillNa0(cells[c]) + SumCols(cells, cols \ {c})

\* the cleaning loop and the derived columns of main
CleanAndDerive(merged) ==
    LET cleaned(row) == [c \in merged.cols |-> CleanCell(row.cells[c])]
        land == {"land_owned_acres", "land_rented_acres"}
        grass == merged.cols \cap grass_seed_cols
        derived(cells) ==
            (IF land \subseteq merged.cols
             THEN "land_in_farms_acres" :> Some(SumCols(cells, land)) ELSE <<>>)
            @@ (IF grass # {}
                THEN "grass_seed_acres" :> Some(SumCols(cells, grass)) ELSE <<>>)
    IN  [cols |-> merged.cols
                    \cup (IF land \subseteq merged.cols THEN {"land_in_farms_acres"} ELSE {})
                    \cup (IF grass # {} THEN {"grass_seed_acres"} ELSE {}),
         rows |-> [i \in 1..Len(merged.rows) |->
                     [key |-> merged.rows[i].key,
                      cells |-> derived(cleaned(merged.rows[i])) @@ cleaned(merged.rows[i])]]]

\* python fetch_ag_data.py
BasicStart ==
    /\ pc = "idle"
    /\ pc' = "bloop"
    /\ idx' = 1
    /\ frames' = <<>>
    /\ saved' = None
    /\ exit_code' = None
    /\ UNCHANGED <<cache, sidx, all_counties_data, requests, ret, fetch_stats,
                   nvars, rvars, tvars>>

\* main calls fetch_metric_multistate(desc, extra_params=extras)
BasicCall ==
    /\ pc = "bloop"
    /\ idx <= NumMetrics
    /\ pc' = "bfetch"
    /\ sidx' = 1
    /\ all_counties_data' = <<>>
    /\ UNCHANGED <<cache, saved, idx, requests, ret, frames, mvars, nvars, rvars, tvars>>

\* one pass of "for state in TARGET_STATES"
BasicFetchState(resp) ==
    /\ pc = "bfetch"
    /\ sidx <= NumStates
    /\ all_counties_data' =
          IF resp.kind = "data"
          THEN all_counties_data \o BasicFrameRows(resp.data)
          ELSE all_counties_data
    /\ sidx' = sidx + 1
    /\ UNCHANGED <<cache, saved, pc, idx, requests, ret, frames, mvars, nvars, rvars, tvars>>

\* pd.concat and return; main appends the renamed table unless it is empty
BasicCollect ==
    /\ pc = "bfetch"
    /\ sidx > NumStates
    /\ frames' = IF all_counties_data # <<>>
                 THEN Append(frames, [name |-> BASIC_METRICS[idx], rows |-> all_counties_data])
                 ELSE frames
    /\ idx' = idx + 1
    /\ pc' = "bloop"
    /\ sidx' = 1
    /\ all_counties_data' = <<>>
    /\ UNCHANGED <<cache, saved, requests, ret, mvars, nvars, rvars, tvars>>

\* main after the loop: nothing fetched (print and fall off the end), or
\* merge, clean, derive and save; the interpreter exits with status 0
BasicFinish ==
    /\ pc = "bloop"
    /\ idx > NumMetrics
    /\ saved' = IF frames = <<>> THEN saved ELSE Some(CleanAndDerive(MergeAll(frames, None)))
    /\ pc' = "idle"
    /\ exit_code' = Some(0)
    /\ UNCHANGED <<cache, idx, sidx, all_counties_data, requests, ret, frames, fetch_stats,
                   nvars, rvars, tvars>>

NextBasic ==
    \/ BasicStart
    \/ BasicCall
    \/ \E resp \in BasicResponses : BasicFetchState(resp)
    \/ BasicCollect
    \/ BasicFinish

SpecBasic == Init /\ [][NextBasic]_vars

-----------------------------------------------------------------------------
(* SpecD: the cleaning and the derived columns of fetch_ag_data.main on every *)
(* small merged table *)

\* the metric columns a merged table is drawn over: one plain metric, the
\* constituents of land_in_farms_acres, two of those of grass_seed_acres
DerivCols ==
    {"farms", "land_owned_acres", "land_rented_acres",
     "grass_seed_bentgrass_acres", "grass_seed_fescue_acres"}

\* a cell of the merged table: null, "1,0" or "(D)"
DerivCells == {None, Some(<<"1", ",", "0">>), Some(WITHHELD)}

DerivKeys == <<<<"OREGON", "BAKER", 2022>>, <<"OREGON", "UNION", 2022>>, <<"OREGON", "WASCO", 2022>>>>

\* the table of n rows over the columns C whose cells are cs
DerivTable(C, n, cs) ==
    [cols |-> C, rows |-> [i \in 1..n |-> [key |-> DerivKeys[i], cells |-> cs[i]]]]

\* the cleaning loop and the derived columns applied to the merged table
Derive ==
    /\ dpc = "input"
    /\ saved' = Some(CleanAndDerive(merged_df))
    /\ dpc' = "done"
    /\ UNCHANGED <<merged_df, nvars, rvars, mvars, attempt, status, fetched, pauses, waited,
                   cache, pc, idx, sidx, all_counties_data, requests, ret, frames>>

InitD ==
    /\ \E C \in SUBSET DerivCols \ {{}}, n \in 1..MaxMergedRows :
          \E cs \in [1..n -> [C -> DerivCells]] : merged_df = DerivTable(C, n, cs)
    /\ dpc = "input"
    /\ NIdle
    /\ RIdle
    /\ FIdle

NextD == Derive

SpecD == InitD /\ [][NextD]_vars

-----------------------------------------------------------------------------
(* SpecFarm: one run of fetch_farm_sizes_only.main on an existing ag_data.csv *)

\* entries of fetch_farm_sizes_only.METRICS, in declaration order
FARM_METRICS ==
    <<"farms_1_9_acres", "farms_10_49_acres", "farms_50_69_acres", "farms_70_99_acres">>

\* str(record.get("Value", "")).replace(",", "").strip(), then float unless the
\* text is empty or "(D)"; an exception skips the record
FarmValue(raw) ==
    LET v == Strip(RemoveCommas(raw))
    IN  IF v # <<>> /\ v # WITHHELD THEN ParseFloat(v) ELSE None

\* the rows one region's records add: one per record with a value, no grouping
RECURSIVE FarmRows(_, _)
FarmRows(state, recs) ==
    IF recs = <<>> THEN <<>>
    ELSE LET v == FarmValue(Head(recs).Value)
         IN  (IF v # None
              THEN <<[key |-> <<state, Some(Head(recs).county_name), 2022>>, cell |-> v]>>
              ELSE <<>>) \o FarmRows(state, Tail(recs))

FarmRecords == [county_name : {"BAKER", "UNION"}, Value : {<<"1">>, <<"2", ",", "0">>, WITHHELD}]

\* what fetch_with_retry hands back: None, a JSON object without "data", one
\* whose "data" cannot be iterated, or one with a list of records
FarmResponses ==
    {[kind |-> k, data |-> <<>>] : k \in {"none", "nodata", "malformed"}}
        \cup {[kind |-> "data", data |-> d] : d \in SeqsUpTo(FarmRecords, MaxRespRecords)}

FarmKeys == {<<"OR", Some("BAKER"), 2022>>, <<"OR", Some("UNION"), 2022>>}

\* ag_data.csv as an earlier run left it: one or two rows, the farms column
\* and possibly a farm-size column of an earlier update
ExistingDatasets ==
    UNION {{[cols |-> C,
             rows |-> [i \in 1..Len(ks) |-> [key |-> ks[i], cells |-> [c \in C |-> Some(7)]]]] :
               ks \in SeqsUpTo(FarmKeys, 2) \ {<<>>}} :
            C \in {{"farms"}, {"farms", "farms_1_9_acres"}}}

\* left.drop(columns=[col]) for the columns the right table brings
DropColumns(left, names) ==
    [cols |-> left.cols \ names,
     rows |-> [i \in 1..Len(left.rows) |->
                 [key |-> left.rows[i].key,
                  cells |-> [c \in left.cols \ names |-> left.rows[i].cells[c]]]]]

\* merge_dfs: drop, then pd.merge(left, right, on=keys, how="left")
merge_dfs(left, right) ==
    LET l == DropColumns(left, {right.name})
    IN  [cols |-> l.cols \cup {right.name}, rows |-> MergeLeft(l.rows, right, None)]

RECURSIVE ReduceMerge(_, _)
ReduceMerge(acc, fs) ==
    IF fs = <<>> THEN acc ELSE ReduceMerge(merge_dfs(acc, Head(fs)), Tail(fs))

\* python fetch_farm_sizes_only.py: without ag_data.csv log and return,
\* otherwise load it
FarmStart ==
    /\ pc = "idle"
    /\ exit_code = None
    /\ IF saved = None
       THEN /\ exit_code' = Some(0)
            /\ UNCHANGED <<pc, merged_df, idx, frames>>
       ELSE /\ merged_df' = saved[1]
            /\ frames' = <<>>
            /\ idx' = 1
            /\ pc' = "floop"
            /\ UNCHANGED exit_code
    /\ UNCHANGED <<cache, saved, sidx, all_counties_data, requests, ret, fetch_stats,
                   attempt, status, fetched, pauses, waited, dpc, nvars, rvars>>

\* main calls fetch_metric_multistate(desc, col_name, extra_params=extras)
FarmCall ==
    /\ pc = "floop"
    /\ idx <= NumMetrics
    /\ pc' = "ffetch"
    /\ sidx' = 1
    /\ all_counties_data' = <<>>
    /\ UNCHANGED <<cache, saved, idx, requests, ret, frames, mvars, nvars, rvars, tvars>>

\* one pass of "for state in TARGET_STATES"; data that cannot be iterated
\* raises out of main and the process ends with a traceback
FarmFetchState(resp) ==
    /\ pc = "ffetch"
    /\ sidx <= NumStates
    /\ IF resp.kind = "malformed"
       THEN /\ pc' = "idle"
            /\ exit_code' = Some(1)
            /\ sidx' = 1
            /\ idx' = 1
            /\ all_counties_data' = <<>>
            /\ frames' = <<>>
       ELSE /\ all_counties_data' =
                  IF resp.kind = "data"
                  THEN all_counties_data \o FarmRows(TARGET_STATES[sidx], resp.data)
                  ELSE all_counties_data
            /\ sidx' = sidx + 1
            /\ UNCHANGED <<pc, exit_code, idx, frames>>
    /\ UNCHANGED <<cache, saved, requests, ret, fetch_stats, nvars, rvars, tvars>>

\* the table returned; main appends it unless it is empty
FarmCollect ==
    /\ pc = "ffetch"
    /\ sidx > NumStates
    /\ frames' = IF all_counties_data # <<>>
                 THEN Append(frames, [name |-> FARM_METRICS[idx], rows |-> all_counties_data])
                 ELSE frames
    /\ idx' = idx + 1
    /\ pc' = "floop"
    /\ sidx' = 1
    /\ all_counties_data' = <<>>
    /\ UNCHANGED <<cache, saved, requests, ret, mvars, nvars, rvars, tvars>>

\* main after the loop: reduce(merge_dfs, frames) written over ag_data.csv
FarmFinish ==
    /\ pc = "floop"
    /\ idx > NumMetrics
    /\ saved' = Some(ReduceMerge(merged_df, frames))
    /\ pc' = "idle"
    /\ exit_code' = Some(0)
    /\ idx' = 1
    /\ UNCHANGED <<cache, sidx, all_counties_data, requests, ret, frames, fetch_stats,
                   nvars, rvars, tvars>>

InitFarm ==
    /\ saved \in {None} \cup {Some(d) : d \in ExistingDatasets}
    /\ cache = <<>>
    /\ pc = "idle"
    /\ idx = 1
    /\ sidx = 1
    /\ all_counties_data = <<>>
    /\ requests = 0
    /\ ret = <<>>
    /\ frames = <<>>
    /\ fetch_stats = <<>>
    /\ exit_code = None
    /\ attempt = 0
    /\ status = ""
    /\ fetched = None
    /\ pauses = 0
    /\ waited = 0
    /\ NIdle
    /\ RIdle
    /\ DIdle

NextFarm ==
    \/ FarmStart
    \/ FarmCall
    \/ \E resp \in FarmResponses : FarmFetchState(resp)
    \/ FarmCollect
    \/ FarmFinish

SpecFarm == InitFarm /\ [][NextFarm]_vars

-----------------------------------------------------------------------------
(* SpecT: calls of the enhanced fetch_metric_multistate for one metric, one *)
(* requests.get at a time, against one cache directory *)

MAX_RETRIES == 3

RETRY_DELAY == 5

API_DELAY == 2

\* the parsed JSON of a 200 response: an object without "data", one whose
\* "data" entries are not objects, or one with a list of records
Bodies ==
    {[kind |-> k, data |-> <<>>] : k \in {"nodata", "malformed"}}
        \cup {[kind |-> "data", data |-> d] : d \in SeqsUpTo(FetchRecords, MaxRespRecords)}

\* how one requests.get can end: requests.exceptions.Timeout, another
\* RequestException, status 429, another status that is not 200, status 200
\* with a body r.json() rejects, status 200 with a JSON body
Outcomes ==
    {[kind |-> k, body |-> [kind |-> "nodata", data |-> <<>>]] :
        k \in {"timeout", "connection_error", "rate_limit", "http_error", "not_json"}}
        \cup {[kind |-> "ok", body |-> b] : b \in Bodies}

\* a caller calls fetch_metric_multistate(desc, col_name, extras): the cache check
CallMetric ==
    /\ pc \in {"idle", "complete", "failed"}
    /\ requests' = 0
    /\ LET m == METRICS[idx]
       IN  IF CacheHit(cache, m.short_desc, m.name, m.extra_params)
           THEN /\ ret' = read_csv(cache[m.name])
                /\ pc' = "complete"
                /\ UNCHANGED <<sidx, all_counties_data, tvars>>
           ELSE /\ pc' = "retry"
                /\ UNCHANGED <<merged_df, dpc>>
                /\ sidx' = 1
                /\ all_counties_data' = <<>>
                /\ attempt' = 0
                /\ status' = ""
                /\ fetched' = None
                /\ pauses' = 0
                /\ waited' = 0
                /\ UNCHANGED ret
    /\ UNCHANGED <<cache, saved, idx, frames, mvars, nvars, rvars>>

\* one pass of "for attempt in range(max_retries)" in fetch_with_retry: a 200
\* with a JSON body is returned; anything else is logged, slept on (twice
\* RETRY_DELAY after a 429, RETRY_DELAY before another attempt) and, after the
\* last attempt, None is returned
RequestsGet(o) ==
    /\ pc = "retry"
    /\ sidx <= NumRegions
    /\ attempt < MAX_RETRIES
    /\ attempt' = attempt + 1
    /\ status' = o.kind
    /\ requests' = IF attempt = 0 THEN requests + 1 ELSE requests
    /\ IF o.kind = "ok"
       THEN /\ fetched' = Some(o.body)
            /\ pc' = "retrieved"
            /\ waited' = waited
       ELSE /\ fetched' = None
            /\ pc' = IF attempt + 1 = MAX_RETRIES THEN "retrieved" ELSE "retry"
            /\ waited' = waited + (IF o.kind = "rate_limit" THEN RETRY_DELAY * 2 ELSE 0)
                                + (IF attempt < MAX_RETRIES - 1 THEN RETRY_DELAY ELSE 0)
    /\ UNCHANGED <<cache, saved, idx, sidx, all_counties_data, ret, frames, pauses,
                   merged_df, dpc, mvars, nvars, rvars>>

\* a test that forgets "not data"
NoData_NoneUnchecked(d) ==
    d # None /\ (d[1].kind = "nodata" \/ (d[1].kind = "data" /\ d[1].data = <<>>))

\* if not data or "data" not in data or len(data["data"]) == 0
NoData(d) ==
    d = None \/ d[1].kind = "nodata" \/ (d[1].kind = "data" /\ d[1].data = <<>>)

\* what makes the code after the test raise: None (TypeError on "in"), or
\* records that are not objects (AttributeError on record.get)
Raises(d) == d = None \/ d[1].kind = "malformed"

\* the rest of the region loop body: "continue" without data, an exception on
\* records that are not objects, or the counties processed and the pause
RegionBody ==
    /\ pc = "retrieved"
    /\ IF NoData(fetched)
       THEN /\ pc' = "retry"
            /\ sidx' = sidx + 1
            /\ UNCHANGED <<all_counties_data, pauses>>
       ELSE IF Raises(fetched)
       THEN /\ pc' = "failed"
            /\ sidx' = 1
            /\ all_counties_data' = <<>>
            /\ pauses' = 0
       ELSE /\ pc' = "retry"
            /\ sidx' = sidx + 1
            /\ all_counties_data' =
                  all_counties_data \o StateRows(TARGET_STATES[sidx], fetched[1].data)
            /\ pauses' = pauses + API_DELAY
    /\ attempt' = 0
    /\ status' = ""
    /\ fetched' = None
    /\ waited' = 0
    /\ UNCHANGED <<cache, saved, idx, requests, ret, frames, merged_df, dpc,
                   mvars, nvars, rvars>>

\* after the loop: nothing collected, or the table cached and returned
ReturnTable ==
    /\ pc = "retry"
    /\ sidx > NumRegions
    /\ IF all_counties_data = <<>>
       THEN /\ ret' = <<>>
            /\ UNCHANGED cache
       ELSE /\ cache' = (METRICS[idx].name :> to_csv(all_counties_data)) @@ cache
            /\ ret' = all_counties_data
    /\ pc' = "complete"
    /\ sidx' = 1
    /\ all_counties_data' = <<>>
    /\ pauses' = 0
    /\ UNCHANGED <<saved, idx, requests, frames, attempt, status, fetched, waited,
                   merged_df, dpc, mvars, nvars, rvars>>

NextT ==
    \/ CallMetric
    \/ \E o \in Outcomes : RequestsGet(o)
    \/ RegionBody
    \/ ReturnTable

SpecT == Init /\ [][NextT]_vars

-----------------------------------------------------------------------------
(* SpecN: the value normalisation on every short text over Alphabet *)

InitN ==
    /\ value_str \in SeqsUpTo(Alphabet, MaxStrLen)
    /\ norm = [value |-> None, withheld |-> FALSE]
    /\ npc = "input"
    /\ RIdle
    /\ FIdle
    /\ DIdle

NextN == NormalizeValue

SpecN == InitN /\ [][NextN]_vars

(* SpecR: process_county_records on every short record list *)

InitR ==
    /\ records \in SeqsUpTo(ReconRecords, MaxRecords)
    /\ result = [value |-> None, is_estimated |-> FALSE]
    /\ emitted = <<>>
    /\ rpc = "input"
    /\ NIdle
    /\ FIdle
    /\ DIdle

NextR == Reconcile

SpecR == InitR /\ [][NextR]_vars

-----------------------------------------------------------------------------
(* What the claims speak of, stated on the records themselves *)

\* the number a raw value discloses, if any
NumericValue(r) == ParseFloat(RemoveCommas(Strip(r.Value)))

\* the trimmed text is empty or the marker "(D)" (text that is so only once
\* its commas are removed is the subject of C6)
MarkedWithheld(r) == Strip(r.Value) = <<>> \/ Strip(r.Value) = WITHHELD

IsAggregate(r) == r.domaincat_desc = NOT_SPECIFIED

Aggregates(recs) == SelectSeq(recs, IsAggregate)

DisclosedAggregates(recs) ==
    SelectSeq(recs, LAMBDA r : IsAggregate(r) /\ NumericValue(r) # None)

DisclosedSub(r) ==
    /\ r.domaincat_desc # NOT_SPECIFIED
    /\ r.domain_desc # "TOTAL"
    /\ NumericValue(r) # None

SubDomains(recs) == {recs[i].domain_desc : i \in {j \in 1..Len(recs) : DisclosedSub(recs[j])}}

GroupOf(recs, d) == SelectSeq(recs, LAMBDA r : DisclosedSub(r) /\ r.domain_desc = d)

RECURSIVE SumRecords(_)
SumRecords(recs) ==
    IF recs = <<>> THEN 0 ELSE NumericValue(Head(recs))[1] + SumRecords(Tail(recs))

GroupSum(recs, d) == SumRecords(GroupOf(recs, d))

GroupSize(recs, d) == Len(GroupOf(recs, d))

LargestDomains(recs) ==
    {d \in SubDomains(recs) : \A e \in SubDomains(recs) : GroupSize(recs, e) <= GroupSize(recs, d)}

FirstIndex(recs, d) ==
    CHOOSE i \in 1..Len(recs) :
        /\ DisclosedSub(recs[i]) /\ recs[i].domain_desc = d
        /\ \A j \in 1..(i - 1) : ~(DisclosedSub(recs[j]) /\ recs[j].domain_desc = d)

\* every aggregate record present is free of the withheld marker, one has a number
AggregateDisclosed(recs) ==
    /\ DisclosedAggregates(recs) # <<>>
    /\ \A i \in 1..Len(recs) : IsAggregate(recs[i]) => ~MarkedWithheld(recs[i])

\* no aggregate record at all, or one carrying the withheld marker
AggregateWithheldOrAbsent(recs) ==
    \/ Aggregates(recs) = <<>>
    \/ \E i \in 1..Len(recs) : IsAggregate(recs[i]) /\ MarkedWithheld(recs[i])

\* neither withheld nor a number
Unparseable(r) == Strip(r.Value) # <<>> /\ Strip(r.Value) # WITHHELD /\ NumericValue(r) = None

-----------------------------------------------------------------------------
(* Claims on process_county_records, checked under SpecR *)

\* C1: when the aggregate-total record is disclosed, the result is exactly its
\* number with provenance actual, whatever subcategory records are present
\* (with several aggregate records, none withheld: the number of the last one).
C1_DisclosedTotalIsReturned ==
    (rpc = "done" /\ AggregateDisclosed(records)) =>
        LET dis == DisclosedAggregates(records)
        IN  result = [value |-> NumericValue(dis[Len(dis)]), is_estimated |-> FALSE]

C1_Witness ==
    /\ rpc = "done"
    /\ AggregateDisclosed(records)
    /\ \E d \in SubDomains(records) : Some(GroupSum(records, d)) # result.value
    /\ result.value # None /\ ~result.is_estimated

\* C2: total withheld or absent and some domain with disclosed subcategories:
\* the result is reconstructed and is the sum of one domain group, a largest one.
C2_ReconstructedFromOneLargestGroup ==
    (rpc = "done" /\ AggregateWithheldOrAbsent(records) /\ SubDomains(records) # {}) =>
        /\ result.is_estimated
        /\ \E d \in LargestDomains(records) : result.value = Some(GroupSum(records, d))

C2_Witness ==
    /\ rpc = "done"
    /\ AggregateWithheldOrAbsent(records)
    /\ \E d, e \in SubDomains(records) :
          /\ GroupSize(records, d) > GroupSize(records, e)
          /\ GroupSum(records, d) # GroupSum(records, e)
          /\ result.value = Some(GroupSum(records, d))
    /\ result.is_estimated

\* a "TOTAL"-domain record outside the aggregate category
IsTotalDomainSub(r) == r.domain_desc = "TOTAL" /\ r.domaincat_desc # NOT_SPECIFIED

\* C3: records of domain "TOTAL" whose category is not "NOT SPECIFIED" change
\* nothing: the result is that of the record list without them.
C3_TotalDomainNeverCounted ==
    rpc = "done" =>
        result = process_county_records(SelectSeq(records, LAMBDA r : ~IsTotalDomainSub(r)))

C3_Witness ==
    /\ rpc = "done"
    /\ \E i \in 1..Len(records) : IsTotalDomainSub(records[i]) /\ NumericValue(records[i]) # None
    /\ result.is_estimated
    /\ result.value # None

\* C4: no disclosed value anywhere: the result is None, not zero, and the
\* fetcher keeps no row for the county.
C4_NoDisclosedValueIsAbsent ==
    (rpc = "done" /\ \A i \in 1..Len(records) : NumericValue(records[i]) = None) =>
        /\ result.value = None
        /\ emitted = <<>>

C4_Witness ==
    /\ rpc = "done"
    /\ \A i \in 1..Len(records) : NumericValue(records[i]) = None
    /\ \E i \in 1..Len(records) : IsAggregate(records[i]) /\ MarkedWithheld(records[i])
    /\ \E i \in 1..Len(records) : ~IsAggregate(records[i]) /\ MarkedWithheld(records[i])
    /\ \E i \in 1..Len(records) : Unparseable(records[i])
    /\ result.value = None /\ emitted = <<>>

\* C5: several domains tie for the most disclosed records: the one whose first
\* disclosed record comes earliest in the input is summed.
C5_TieGoesToFirstEncountered ==
    (rpc = "done" /\ AggregateWithheldOrAbsent(records) /\ Cardinality(LargestDomains(records)) >= 2) =>
        LET first == CHOOSE d \in LargestDomains(records) :
                        \A e \in LargestDomains(records) : FirstIndex(records, d) <= FirstIndex(records, e)
        IN  result = [value |-> Some(GroupSum(records, first)), is_estimated |-> TRUE]

C5_Witness ==
    /\ rpc = "done"
    /\ AggregateWithheldOrAbsent(records)
    /\ \E d, e \in LargestDomains(records) :
          /\ GroupSum(records, d) # GroupSum(records, e)
          /\ FirstIndex(records, d) < FirstIndex(records, e)
          /\ result.value = Some(GroupSum(records, d))

\* C7: unparseable values contribute nothing: the result, and the row kept,
\* are those of the record list with the unparseable records removed.
C7_UnparseableRecordsAreIgnored ==
    rpc = "done" =>
        LET kept == SelectSeq(records, LAMBDA r : ~Unparseable(r))
        IN  /\ result = process_county_records(kept)
            /\ emitted = CountyRows("OR", "BAKER", kept)

C7_Witness ==
    /\ rpc = "done"
    /\ \E i \in 1..Len(records) : Unparseable(records[i]) /\ IsAggregate(records[i])
    /\ \E i \in 1..Len(records) : Unparseable(records[i]) /\ ~IsAggregate(records[i])
    /\ result.value # None

\* several aggregate records, one of them withheld
SeveralAggregatesOneWithheld(recs) ==
    /\ Len(Aggregates(recs)) >= 2
    /\ \E i \in 1..Len(recs) : IsAggregate(recs[i]) /\ MarkedWithheld(recs[i])

\* C19: several "NOT SPECIFIED" records of a county, at least one withheld:
\* the result is never actual, whatever the other aggregate records disclose;
\* it is the reconstructed sum of a largest group, or absent without one.
C19_WithheldAggregateNeverActual ==
    (rpc = "done" /\ SeveralAggregatesOneWithheld(records)) =>
        IF SubDomains(records) # {}
        THEN /\ result.is_estimated
             /\ \E d \in LargestDomains(records) : result.value = Some(GroupSum(records, d))
        ELSE result = [value |-> None, is_estimated |-> FALSE]

C19_Witness ==
    /\ rpc = "done"
    /\ SeveralAggregatesOneWithheld(records)
    /\ DisclosedAggregates(records) # <<>>
    /\ IsAggregate(records[1]) /\ MarkedWithheld(records[1])
    /\ result.is_estimated
    /\ result.value # NumericValue(DisclosedAggregates(records)[1])

-----------------------------------------------------------------------------
(* Claim on the value normalisation, checked under SpecN *)

\* C6: trim, remove commas, then test for withheld: empty or "(D)" at that
\* point is "no value, withheld"; any other text that does not parse is
\* "no value, not withheld".
C6_TrimCommasThenWithheld ==
    npc = "done" =>
        LET t == RemoveCommas(Strip(value_str))
        IN  IF t = <<>> \/ t = WITHHELD
            THEN norm = [value |-> None, withheld |-> TRUE]
            ELSE ParseFloat(t) = None => norm = [value |-> None, withheld |-> FALSE]

-----------------------------------------------------------------------------
(* Claims on the enhanced fetch_metric_multistate, checked under Spec *)

UniqueKeys(rows) ==
    \A i, j \in 1..Len(rows) : KeyOf(rows[i]) = KeyOf(rows[j]) => i = j

\* C8: every table fetch_metric_multistate returns, built from the network or
\* loaded from the cache an earlier run wrote, has at most one row per
\* (state_name, county_name, year).
C8_ReturnedTableHasUniqueKeys == pc = "returned" => UniqueKeys(ret)

\* C10: a call for a metric whose cache file exists returns the cached table at
\* once: no region is requested, whatever short_desc and extra_params are.
C10_CacheHitSkipsNetwork ==
    [][(pc = "loop" /\ pc' # "loop" /\ idx <= NumMetrics /\ METRICS[idx].name \in DOMAIN cache) =>
          /\ pc' = "returned"
          /\ requests' = requests
          /\ cache' = cache
          /\ ret' = read_csv(cache[METRICS[idx].name])]_vars

C10_Witness ==
    /\ pc = "returned"
    /\ requests = 0
    /\ METRICS[idx].name \in DOMAIN cache
    /\ METRICS[idx].extra_params # "None"
    /\ ret # <<>>
    /\ ret = read_csv(cache[METRICS[idx].name])

\* C11: the table a later call loads from a metric's cache file has the same
\* rows and values as the table the call that wrote the file returned.
C11_CacheRoundTrip ==
    (pc = "returned" /\ METRICS[idx].name \in DOMAIN cache) =>
        read_csv(cache[METRICS[idx].name]) = ret

\* the metrics of the finished run that produced rows
MetricsWithRows == {fetch_stats[i].metric : i \in {j \in 1..Len(fetch_stats) : fetch_stats[j].total_rows > 0}}

\* C16: a metric that returned no rows, or whose fetch raised, adds no column,
\* and the run still fetches every metric declared after it: the columns of
\* the saved dataset are exactly the metrics that returned rows.
C16_EmptyMetricOmittedRunContinues ==
    (pc = "idle" /\ exit_code # None) =>
        /\ Len(fetch_stats) = NumMetrics
        /\ \A i \in 1..NumMetrics : fetch_stats[i].metric = METRICS[i].name
        /\ IF MetricsWithRows = {} THEN saved = None
           ELSE saved # None /\ saved[1].cols = MetricsWithRows

C16_Witness ==
    /\ pc = "idle"
    /\ exit_code # None
    /\ fetch_stats[1].error = "AttributeError"
    /\ \E i \in 2..NumMetrics : fetch_stats[i].total_rows > 0
    /\ saved # None
    /\ METRICS[1].name \notin saved[1].cols

\* C17: a run in which no metric produced data ends with a non-zero exit
\* status and without writing the output file.
C17_NoDataAbortsNonZero ==
    (pc = "idle" /\ exit_code # None /\ MetricsWithRows = {}) =>
        /\ exit_code # Some(0)
        /\ saved = None

-----------------------------------------------------------------------------
(* Claims on the retrieval of one region, checked under SpecT *)

\* a retrieval step: one more requests.get
Requested == attempt' = attempt + 1

FailureKinds == {"timeout", "connection_error", "rate_limit", "http_error"}

\* C12: for one region at most MAX_RETRIES requests are made, none after a
\* successful one; MAX_RETRIES failures make fetch_with_retry return None, the
\* region is then skipped with the collected rows kept, the next region is
\* requested, and a fetch that returns has called fetch_with_retry for every
\* region.
C12_BoundedRetriesThenSkip ==
    [][/\ attempt' <= MAX_RETRIES
       /\ Requested => (pc = "retry" /\ status # "ok")
       /\ (Requested /\ status' = "ok") => (pc' = "retrieved" /\ fetched' # None)
       /\ (Requested /\ status' \in FailureKinds) =>
             IF attempt' = MAX_RETRIES
             THEN pc' = "retrieved" /\ fetched' = None
             ELSE pc' = "retry" /\ sidx' = sidx
       /\ (pc = "retrieved" /\ fetched = None) =>
             /\ pc' = "retry"
             /\ attempt' = 0
             /\ sidx' = sidx + 1
             /\ all_counties_data' = all_counties_data
       /\ (pc = "retry" /\ pc' = "complete") => requests = NumRegions]_vars

C12_Witness ==
    /\ pc = "retrieved"
    /\ fetched = None
    /\ attempt = MAX_RETRIES
    /\ status \in FailureKinds
    /\ waited = 2 * RETRY_DELAY
    /\ sidx < NumRegions

\* the latest response is malformed: not JSON, or JSON of an unexpected schema
MalformedResponse(st, f) ==
    \/ st = "not_json"
    \/ st = "ok" /\ f # None /\ f[1].kind \in {"nodata", "malformed"}

\* C13: a malformed response (a body that is not JSON, or a 200 whose JSON has
\* no "data" array) counts as a failed attempt: nothing is returned for it and,
\* attempts remaining, the region is requested again.
C13_MalformedIsRetried ==
    [][(Requested /\ MalformedResponse(status', fetched')) =>
          IF attempt' = MAX_RETRIES
          THEN pc' = "retrieved" /\ fetched' = None
          ELSE pc' = "retry" /\ sidx' = sidx /\ fetched' = None]_vars

\* C14: every region's retrieval, whatever its outcome, is followed by the
\* API_DELAY pause before the loop moves to the next region.
C14_PauseAfterEveryRegion ==
    [][(pc = "retrieved" /\ sidx' = sidx + 1) => pauses' = pauses + API_DELAY]_vars

-----------------------------------------------------------------------------
(* Claim on the derived columns, checked under SpecD *)

LandCols == {"land_owned_acres", "land_rented_acres"}

\* the number a cell contributes to a null-safe sum
CellNumber(cell) ==
    IF cell = None THEN 0
    ELSE LET n == ParseFloat(RemoveCommas(Strip(cell[1])))
         IN  IF n = None THEN 0 ELSE n[1]

RECURSIVE ConstituentSum(_, _)
ConstituentSum(row, S) ==
    IF S = {} THEN 0
    ELSE LET c == CHOOSE x \in S : TRUE
         IN  (IF c \in DOMAIN row.cells THEN CellNumber(row.cells[c]) ELSE 0)
                + ConstituentSum(row, S \ {c})

\* the derived column is there and holds, in every row, the null-safe sum of
\* the constituents
DerivedIsSum(name, S) ==
    /\ name \in saved[1].cols
    /\ \A i \in 1..Len(merged_df.rows) :
          saved[1].rows[i].cells[name] = Some(ConstituentSum(merged_df.rows[i], S))

RegionsOf(rows) == {rows[i].state_name : i \in 1..Len(rows)}

\* C18: a cache file, once written, is never changed or removed by a fetch; one
\* is written only by a fetch that found none and collected at least one row;
\* and a call that finds the file returns rows for exactly the regions the
\* file has, so a region skipped when it was written stays absent.
C18_CacheIsWriteOnce ==
    [][/\ \A n \in DOMAIN cache : n \in DOMAIN cache' /\ cache'[n] = cache[n]
       /\ cache' # cache =>
             /\ pc = "retry"
             /\ all_counties_data # <<>>
             /\ METRICS[idx].name \notin DOMAIN cache
             /\ cache' = (METRICS[idx].name :> to_csv(all_counties_data)) @@ cache
       /\ (pc \in {"idle", "complete", "failed"} /\ METRICS[idx].name \in DOMAIN cache) =>
             /\ pc' = "complete"
             /\ RegionsOf(ret') = RegionsOf(cache[METRICS[idx].name])]_vars

C18_Witness ==
    /\ pc = "complete"
    /\ requests = 0
    /\ METRICS[idx].name \in DOMAIN cache
    /\ ret # <<>>
    /\ RegionsOf(ret) = {TARGET_STATES[NumRegions]}

-----------------------------------------------------------------------------
(* Claim on the farm-size update, checked under SpecFarm *)

\* how many rows of a table have the key
KeyCount(t, k) == Cardinality({i \in 1..Len(t.rows) : t.rows[i].key = k})

\* C20: after the update the dataset has the keys it had, each as many times
\* as before, and its columns are those it had together with the fetched
\* ones, an already existing metric column holding the fetched values.
C20_UpdateKeepsRows ==
    (pc = "idle" /\ exit_code = Some(0) /\ saved # None) =>
        /\ Len(saved[1].rows) = Len(merged_df.rows)
        /\ \A k \in FarmKeys : KeyCount(saved[1], k) = KeyCount(merged_df, k)
        /\ saved[1].cols = merged_df.cols \cup {frames[j].name : j \in 1..Len(frames)}

-----------------------------------------------------------------------------
(* Claim on the merged dataset, checked under SpecBasic *)

FrameKeys(fs) == UNION {{fs[i].rows[j].key : j \in 1..Len(fs[i].rows)} : i \in 1..Len(fs)}

KeysOfFrame(f) == {f.rows[j].key : j \in 1..Len(f.rows)}

\* C9: the merged dataset has exactly one row for each (state, county, year)
\* key of any fetched table and no other row, with a null in every metric
\* column whose table lacks the key.
C9_MergedHasOneRowPerKey ==
    (pc = "idle" /\ saved # None) =>
        LET out == saved[1]
        IN  /\ \A i, j \in 1..Len(out.rows) : out.rows[i].key = out.rows[j].key => i = j
            /\ {out.rows[i].key : i \in 1..Len(out.rows)} = FrameKeys(frames)
            /\ \A i \in 1..Len(out.rows) : \A k \in 1..Len(frames) :
                  out.rows[i].key \notin KeysOfFrame(frames[k]) =>
                      out.rows[i].cells[frames[k].name] = None

=============================================================================
